---- MODULE Spec2Model ----
(***************************************************************************)
(* A model of the QR attendance backend: the weekly schedule engine        *)
(* (scheduleController), the QR session lifecycle (qrController) and the   *)
(* attendance reconciler (attendanceController), over the document store   *)
(* they share.                                                             *)
(***************************************************************************)
EXTENDS Integers, Sequences, FiniteSets, TLC

VARIABLES
    schedules,   \* the Schedule collection, a document's place being its _id
    clock,       \* the server's clock, in ticks
    sessions,    \* the QRCodeSession collection
    attendance,  \* the Attendance collection
    procs,       \* the requests in flight, each with what it has read so far
    probe        \* the arguments and the result of a pure function under test

vars == <<schedules, clock, sessions, attendance, procs, probe>>

\* What the schedule handlers never touch.
sessionVars == <<clock, sessions, attendance, procs, probe>>

-----------------------------------------------------------------------------
(* Bounds of the model.                                                    *)

MaxSchedules == 3
MaxBulk == 2
MaxSplitPoints == 2

-----------------------------------------------------------------------------
(* Users, classes and the other collections the handlers only read.        *)

Undef == "undefined"
\* A time string the body leaves out.
NoTime == <<>>

Teachers == {"t1", "t2"}
Admins == {"a1"}
Users == Teachers \cup Admins

role(u) == IF u \in Teachers THEN "teacher" ELSE IF u \in Admins THEN "admin" ELSE "student"

Classes == {"c1", "c2"}
\* The classes the schedule requests name.
ScheduleClasses == {"c1"}
Days == {"Monday"}
Rooms == {"r1"}

-----------------------------------------------------------------------------
(* Time strings. A string is the sequence of its characters, a digit being *)
(* its value, ':' being 10 (it sorts after every digit) and a letter being *)
(* above that, so that comparing sequences is comparing strings.           *)

Hours == {9, 10, 11}
Minutes == {0}

TimeString(h, m, pad) ==
    (IF h >= 10 \/ pad THEN <<h \div 10>> ELSE <<>>)
        \o <<h % 10, 10, m \div 10, m % 10>>

\* What the requests carry: hours below ten written with one digit or two.
TimeInputs == {TimeString(h, m, p) : h \in Hours, m \in Minutes, p \in BOOLEAN}

\* 'Invalid date', what moment formats an invalid moment as.
InvalidDateString == <<18, 23, 31, 10, 21, 18, 13>>
InvalidMoment == -1

\* /^([0-1]?[0-9]|2[0-3]):[0-5][0-9]$/
MatchesTimeFormat(s) ==
    /\ s # NoTime
    /\ \/ /\ Len(s) = 4
          /\ s[1] \in 0..9
          /\ s[2] = 10 /\ s[3] \in 0..5 /\ s[4] \in 0..9
       \/ /\ Len(s) = 5
          /\ \/ s[1] \in 0..1 /\ s[2] \in 0..9
             \/ s[1] = 2 /\ s[2] \in 0..3
          /\ s[3] = 10 /\ s[4] \in 0..5 /\ s[5] \in 0..9

\* /^([0-1][0-9]|2[0-3]):[0-5][0-9]$/
MatchesStrictTimeFormat(s) ==
    /\ Len(s) = 5
    /\ \/ s[1] \in 0..1 /\ s[2] \in 0..9
       \/ s[1] = 2 /\ s[2] \in 0..3
    /\ s[3] = 10 /\ s[4] \in 0..5 /\ s[5] \in 0..9

\* moment(s, 'HH:mm'): minutes since midnight, or an invalid moment.
momentParse(s) ==
    IF s = NoTime THEN InvalidMoment
    ELSE IF Len(s) = 4 THEN s[1] * 60 + s[3] * 10 + s[4]
    ELSE (s[1] * 10 + s[2]) * 60 + s[4] * 10 + s[5]

\* m.format('HH:mm')
momentFormat(t) ==
    IF t = InvalidMoment THEN InvalidDateString
    ELSE TimeString(t \div 60, t % 60, TRUE)

\* a < b as the store compares strings.
StringLess(a, b) ==
    \E i \in 1..Len(b) :
        /\ \A j \in 1..(i - 1) : j <= Len(a) /\ a[j] = b[j]
        /\ \/ i > Len(a)
           \/ i <= Len(a) /\ a[i] < b[i]

-----------------------------------------------------------------------------
(* The Schedule collection: schedules[i] is the document with _id i.       *)

NoId == 0

ScheduleDoc(classId, teacherId, dayOfWeek, startTime, endTime, roomNumber) ==
    [classId |-> classId, teacherId |-> teacherId, dayOfWeek |-> dayOfWeek,
     startTime |-> startTime, endTime |-> endTime, roomNumber |-> roomNumber,
     isActive |-> TRUE]

\* scheduleSchema.pre('save')
ScheduleSaveHookOk(doc) == role(doc.teacherId) = "teacher"

\* The unique index { teacherId, dayOfWeek, startTime, roomNumber }.
ScheduleKey(doc) == <<doc.teacherId, doc.dayOfWeek, doc.startTime, doc.roomNumber>>

ScheduleDuplicateKey(store, doc, self) ==
    \E i \in DOMAIN store : i # self /\ ScheduleKey(store[i]) = ScheduleKey(doc)

\* new Schedule(doc).save()
ScheduleInsertOk(store, doc) ==
    ScheduleSaveHookOk(doc) /\ ~ScheduleDuplicateKey(store, doc, NoId)

\* The conflict query of createSchedule, updateSchedule, createBulkSchedules and
\* checkScheduleConflict.
conflictingSchedule(store, exceptId, teacherId, dayOfWeek, startTime, endTime) ==
    LET start == momentFormat(momentParse(startTime))
        end == momentFormat(momentParse(endTime))
    IN  {i \in DOMAIN store :
            /\ i # exceptId
            /\ store[i].teacherId = teacherId
            /\ store[i].dayOfWeek = dayOfWeek
            /\ store[i].isActive
            /\ StringLess(store[i].startTime, end)
            /\ StringLess(start, store[i].endTime)}

\* The body's teacherId must be the caller, unless the caller is an admin.
TeacherIdAllowed(user, teacherId) == teacherId = user \/ role(user) = "admin"

-----------------------------------------------------------------------------
(* What the model's requests carry. The request validation accepts any two *)
(* time strings; the model's requests keep to intervals that end after     *)
(* they start.                                                             *)

ScheduleBodies ==
    {b \in {ScheduleDoc(c, t, d, s, e, r) :
                c \in ScheduleClasses, t \in Teachers, d \in Days,
                s \in TimeInputs, e \in TimeInputs, r \in Rooms} :
        momentParse(b.startTime) < momentParse(b.endTime)}

TimePatches ==
    {<<NoTime, NoTime>>} \cup {<<b.startTime, b.endTime>> : b \in ScheduleBodies}

SchedulePatches ==
    {[teacherId |-> t, dayOfWeek |-> d, startTime |-> tp[1], endTime |-> tp[2],
      isActive |-> a] :
        t \in Teachers, d \in Days \cup {Undef}, tp \in TimePatches,
        a \in {"true", "false", Undef}}

ScheduleIds == 1..(MaxSchedules + 1)

-----------------------------------------------------------------------------
(* createSchedule                                                          *)

createScheduleStatus(store, user, b) ==
    IF ~(MatchesTimeFormat(b.startTime) /\ MatchesTimeFormat(b.endTime)
         /\ TeacherIdAllowed(user, b.teacherId)) THEN 400
    ELSE IF conflictingSchedule(store, NoId, b.teacherId, b.dayOfWeek,
                                b.startTime, b.endTime) # {} THEN 409
    ELSE IF ~ScheduleInsertOk(store, b) THEN 400
    ELSE 201

createScheduleStore(store, user, b) ==
    IF createScheduleStatus(store, user, b) = 201 THEN Append(store, b) ELSE store

createSchedule(user, b) ==
    /\ Len(schedules) < MaxSchedules
    /\ schedules' = createScheduleStore(schedules, user, b)
    /\ UNCHANGED sessionVars

-----------------------------------------------------------------------------
(* createBulkSchedules: the items one after the other, each with its own   *)
(* conflict query and save; an item's failure is collected.                *)

RECURSIVE createBulkStore(_, _, _)
createBulkStore(store, user, items) ==
    IF items = <<>> THEN store
    ELSE LET b == Head(items)
             ok == /\ TeacherIdAllowed(user, b.teacherId)
                   /\ conflictingSchedule(store, NoId, b.teacherId, b.dayOfWeek,
                                          b.startTime, b.endTime) = {}
                   /\ ScheduleInsertOk(store, b)
         IN  createBulkStore(IF ok THEN Append(store, b) ELSE store, user, Tail(items))

BulkBodies == {b \in ScheduleBodies : b.teacherId = "t1"}

BulkBatches == UNION {[1..n -> BulkBodies] : n \in 1..MaxBulk}

createBulkSchedules(user, items) ==
    /\ Len(schedules) + Len(items) <= MaxSchedules
    /\ \A i \in DOMAIN items :
          MatchesTimeFormat(items[i].startTime) /\ MatchesTimeFormat(items[i].endTime)
    /\ schedules' = createBulkStore(schedules, user, items)
    /\ UNCHANGED sessionVars

-----------------------------------------------------------------------------
(* updateSchedule. A key the body leaves out is undefined: the conflict    *)
(* query then carries 'Invalid date' or matches no dayOfWeek, and the      *)
(* update leaves that field as it is.                                      *)

ApplyPatch(doc, p) ==
    [doc EXCEPT !.teacherId = p.teacherId,
                !.dayOfWeek = IF p.dayOfWeek = Undef THEN @ ELSE p.dayOfWeek,
                !.startTime = IF p.startTime = NoTime THEN @ ELSE p.startTime,
                !.endTime = IF p.endTime = NoTime THEN @ ELSE p.endTime,
                !.isActive = IF p.isActive = Undef THEN @ ELSE p.isActive = "true"]

updateScheduleStatus(store, user, id, p) ==
    IF ~TeacherIdAllowed(user, p.teacherId) THEN 400
    ELSE IF conflictingSchedule(store, id, p.teacherId, p.dayOfWeek,
                                p.startTime, p.endTime) # {} THEN 409
    ELSE IF id \notin DOMAIN store THEN 404
    ELSE IF ScheduleDuplicateKey(store, ApplyPatch(store[id], p), id) THEN 400
    ELSE 200

updateScheduleStore(store, user, id, p) ==
    IF updateScheduleStatus(store, user, id, p) = 200
    THEN [store EXCEPT ![id] = ApplyPatch(@, p)]
    ELSE store

updateSchedule(user, id, p) ==
    /\ schedules' = updateScheduleStore(schedules, user, id, p)
    /\ UNCHANGED sessionVars

-----------------------------------------------------------------------------
(* deleteSchedule                                                          *)

IsOwnerOrAdmin(user, doc) == doc.teacherId = user \/ role(user) = "admin"

deleteScheduleStatus(store, user, id) ==
    IF id \notin DOMAIN store THEN 404
    ELSE IF ~IsOwnerOrAdmin(user, store[id]) THEN 403
    ELSE IF ~ScheduleSaveHookOk(store[id]) THEN 400
    ELSE 200

deleteScheduleStore(store, user, id) ==
    IF deleteScheduleStatus(store, user, id) = 200
    THEN [store EXCEPT ![id].isActive = FALSE]
    ELSE store

deleteSchedule(user, id) ==
    /\ schedules' = deleteScheduleStore(schedules, user, id)
    /\ UNCHANGED sessionVars

-----------------------------------------------------------------------------
(* mergeSchedules                                                          *)

ObjectId(i) == [type |-> "ObjectId", value |-> i]
Boolean(b) == [type |-> "boolean", value |-> b]

\* mongoose.isValidObjectId
isValidObjectId(v) == v.type = "ObjectId"

SeqMin(s) == CHOOSE x \in {s[i] : i \in DOMAIN s} : \A j \in DOMAIN s : x <= s[j]
SeqMax(s) == CHOOSE x \in {s[i] : i \in DOMAIN s} : \A j \in DOMAIN s : x >= s[j]

\* Schedule.find({ _id: { $in: scheduleIds }, isActive: true }), in _id order.
RECURSIVE FindActive(_, _, _)
FindActive(store, ids, i) ==
    IF i > Len(store) THEN <<>>
    ELSE (IF store[i].isActive /\ \E k \in DOMAIN ids : ids[k] = i
          THEN <<store[i]>> ELSE <<>>) \o FindActive(store, ids, i + 1)

mergedSchedule(found) ==
    [found[1] EXCEPT
        !.startTime = momentFormat(SeqMin([i \in DOMAIN found |->
                                              momentParse(found[i].startTime)])),
        !.endTime = momentFormat(SeqMax([i \in DOMAIN found |->
                                            momentParse(found[i].endTime)])),
        !.isActive = TRUE]

mergeSchedulesStatus(store, user, ids) ==
    LET found == FindActive(store, ids, 1)
    IN  IF ~isValidObjectId(Boolean(\A k \in DOMAIN ids : isValidObjectId(ObjectId(ids[k]))))
        THEN 400
        ELSE IF Len(found) # Len(ids) THEN 404
        ELSE IF \E i \in DOMAIN found :
                    \/ found[i].dayOfWeek # found[1].dayOfWeek
                    \/ found[i].classId # found[1].classId
                    \/ found[i].teacherId # found[1].teacherId
                    \/ found[i].roomNumber # found[1].roomNumber THEN 400
        ELSE IF ~IsOwnerOrAdmin(user, found[1]) THEN 403
        ELSE IF ~ScheduleInsertOk(store, mergedSchedule(found)) THEN 400
        ELSE 200

mergeSchedulesStore(store, user, ids) ==
    IF mergeSchedulesStatus(store, user, ids) = 200
    THEN LET saved == Append(store, mergedSchedule(FindActive(store, ids, 1)))
         IN  [i \in DOMAIN saved |->
                 IF \E k \in DOMAIN ids : ids[k] = i
                 THEN [saved[i] EXCEPT !.isActive = FALSE] ELSE saved[i]]
    ELSE store

MergeRequests == [1..2 -> 1..MaxSchedules]

mergeSchedules(user, ids) ==
    /\ Len(schedules) < MaxSchedules
    /\ schedules' = mergeSchedulesStore(schedules, user, ids)
    /\ UNCHANGED sessionVars

-----------------------------------------------------------------------------
(* splitSchedule: a piece is saved as soon as its end passes the check, so *)
(* a later failure leaves the pieces saved so far.                         *)

RECURSIVE splitLoop(_, _, _, _)
splitLoop(store, original, splitTimes, currentStartTime) ==
    IF splitTimes = <<>> THEN [store |-> store, ok |-> TRUE]
    ELSE LET splitMoment == momentParse(Head(splitTimes))
             newSchedule == [original EXCEPT
                                !.startTime = momentFormat(currentStartTime),
                                !.endTime = momentFormat(splitMoment),
                                !.isActive = TRUE]
         IN  IF splitMoment = InvalidMoment \/ ~(splitMoment > currentStartTime)
             THEN [store |-> store, ok |-> FALSE]
             ELSE IF ~ScheduleInsertOk(store, newSchedule)
             THEN [store |-> store, ok |-> FALSE]
             ELSE splitLoop(Append(store, newSchedule), original,
                            Tail(splitTimes), splitMoment)

splitScheduleResult(store, user, id, splitPoints) ==
    IF \E k \in DOMAIN splitPoints : ~MatchesStrictTimeFormat(splitPoints[k])
    THEN [store |-> store, status |-> 400]
    ELSE IF id \notin DOMAIN store THEN [store |-> store, status |-> 404]
    ELSE IF ~IsOwnerOrAdmin(user, store[id]) THEN [store |-> store, status |-> 403]
    ELSE LET r == splitLoop(store, store[id],
                            Append(splitPoints, store[id].endTime),
                            momentParse(store[id].startTime))
         IN  IF ~r.ok THEN [store |-> r.store, status |-> 400]
             ELSE IF ~ScheduleSaveHookOk(store[id])
             THEN [store |-> r.store, status |-> 400]
             ELSE [store |-> [r.store EXCEPT ![id].isActive = FALSE],
                   status |-> 200]

SplitRequests == UNION {[1..n -> TimeInputs] : n \in 1..MaxSplitPoints}

splitSchedule(user, id, splitPoints) ==
    /\ Len(schedules) + Len(splitPoints) + 1 <= MaxSchedules
    /\ schedules' = splitScheduleResult(schedules, user, id, splitPoints).store
    /\ UNCHANGED sessionVars

-----------------------------------------------------------------------------
(* checkScheduleConflict                                                   *)

\* The probe with a query of its own that leaves out isActive.
checkScheduleConflictStatusAnyState(store, user, b) ==
    IF ~(MatchesTimeFormat(b.startTime) /\ MatchesTimeFormat(b.endTime)
         /\ TeacherIdAllowed(user, b.teacherId)) THEN 400
    ELSE IF \E i \in DOMAIN store :
               /\ store[i].teacherId = b.teacherId
               /\ store[i].dayOfWeek = b.dayOfWeek
               /\ StringLess(store[i].startTime, momentFormat(momentParse(b.endTime)))
               /\ StringLess(momentFormat(momentParse(b.startTime)), store[i].endTime)
         THEN 409
    ELSE 200

checkScheduleConflictStatus(store, user, b) ==
    IF ~(MatchesTimeFormat(b.startTime) /\ MatchesTimeFormat(b.endTime)
         /\ TeacherIdAllowed(user, b.teacherId)) THEN 400
    ELSE IF conflictingSchedule(store, NoId, b.teacherId, b.dayOfWeek,
                                b.startTime, b.endTime) # {} THEN 409
    ELSE 200

checkScheduleConflict(user, b) ==
    /\ checkScheduleConflictStatus(schedules, user, b) \in {200, 400, 409}
    /\ UNCHANGED vars

-----------------------------------------------------------------------------
(* The clock. A tick is a fraction of a second, so that the instants the   *)
(* handlers read in milliseconds and the ones a token carries in whole     *)
(* seconds differ. Tick 0 is one tick before 09:15:00.000 UTC of day 0.    *)

TicksPerSecond == 2
\* expiryMinutes * 60 of a deployment, scaled to the clock of the model.
ExpirySeconds == 2
MaxClock == 5
MaxSessions == 2
MaxInFlight == 2

MsPerTick == 1000 \div TicksPerSecond
MsPerDay == 24 * 60 * 60 * 1000
Epoch == (9 * 60 + 15) * 60 * 1000 - MsPerTick

\* new Date() at tick t, in milliseconds.
Time(t) == Epoch + t * MsPerTick
now == Time(clock)

\* Math.floor(ms / 1000)
Seconds(ms) == ms \div 1000

\* expiryMinutes * 60 * 1000
SessionLifetime == ExpirySeconds * 1000

-----------------------------------------------------------------------------
(* Students and enrollments, the classroom and the places students are at. *)

Students == {"s1", "s2", "s3"}

\* The active ClassEnrollment documents.
ClassEnrollment ==
    {[classId |-> "c1", studentId |-> "s1"], [classId |-> "c1", studentId |-> "s2"]}

Enrolled(classId, studentId) ==
    [classId |-> classId, studentId |-> studentId] \in ClassEnrollment

\* A coordinate is a latitude in millionths of a degree on one meridian; a
\* body may carry it as a number or as a numeric string.
Coordinates(latitude, isNumber) == [latitude |-> latitude, isNumber |-> isNumber]
Classroom == Coordinates(0, TRUE)
Near == Coordinates(450, TRUE)
Far == Coordinates(1349, TRUE)
NearAsString == Coordinates(450, FALSE)

MaxAttendanceDistanceMeters == 100

ValidCoordinates(c) ==
    c.isNumber /\ c.latitude >= -90 * 1000000 /\ c.latitude <= 90 * 1000000

Abs(x) == IF x < 0 THEN -x ELSE x

\* The great-circle distance of two points of one meridian, in millimetres:
\* R * dLat, with R * pi / 180 = 111195 metres to the degree.
calculateDistance(coords1, coords2) ==
    (Abs(coords2.latitude - coords1.latitude) * 111195) \div 1000

\* The distance taken for kilometres.
TooFarInKilometres(coords1, coords2) ==
    calculateDistance(coords1, coords2) \div 1000 > MaxAttendanceDistanceMeters * 1000

TooFar(coords1, coords2) ==
    calculateDistance(coords1, coords2) > MaxAttendanceDistanceMeters * 1000

-----------------------------------------------------------------------------
(* QR sessions. The place of a document in the collection stands for its   *)
(* _id and for its sessionId, the 32 hex digits drawn at random; qrPayload *)
(* is flattened into the document. A document that the TTL index has       *)
(* deleted leaves its place behind.                                        *)

Removed == [stored |-> FALSE]

\* jwt.sign(minimalPayload, secret)
jwtSign(sid, cid, timestamp, expiresAt) ==
    [fmt |-> "jwt", sid |-> sid, cid |-> cid,
     ts |-> Seconds(timestamp), exp |-> Seconds(expiresAt)]

\* 'QR_' + sessionId
sessionReference(sid) == [fmt |-> "QR_", sid |-> sid]

\* JSON.stringify of the payload the teacher's page shows.
qrData(sid) == [fmt |-> "json", sessionId |-> sid]

\* JSON.stringify of a payload without sessionId that carries a token field.
qrDataToken(token) == [fmt |-> "json", sessionId |-> NoId, token |-> token]

\* Neither JSON, nor a reference, nor a token signed with the secret.
UnsignedToken == [fmt |-> "unsigned"]

SessionDoc(classId, scheduleId, teacherId, sessionId, coordinates, timestamp) ==
    [stored |-> TRUE,
     classId |-> classId, scheduleId |-> scheduleId, teacherId |-> teacherId,
     sessionId |-> sessionId,
     timestamp |-> timestamp,
     coordinates |-> coordinates,
     token |-> jwtSign(sessionId, classId, timestamp, timestamp + SessionLifetime),
     expiresAt |-> timestamp + SessionLifetime,
     isActive |-> TRUE,
     createdAt |-> timestamp]

SessionStored(store, sid) == sid \in DOMAIN store /\ store[sid].stored

\* The hook without its test of the schedule's class.
SessionSaveHookIgnoringClass(doc) ==
    /\ role(doc.teacherId) = "teacher"
    /\ doc.classId \in Classes
    /\ doc.scheduleId # NoId => doc.scheduleId \in DOMAIN schedules

\* qrCodeSessionSchema.pre('save')
SessionSaveHookOk(doc) ==
    /\ role(doc.teacherId) = "teacher"
    /\ doc.classId \in Classes
    /\ doc.scheduleId # NoId =>
          /\ doc.scheduleId \in DOMAIN schedules
          /\ schedules[doc.scheduleId].classId = doc.classId

\* { sessionId, isActive: true, expiresAt: { $gt: new Date() } }
ActiveSession(store, sid, t) ==
    /\ SessionStored(store, sid)
    /\ store[sid].isActive
    /\ store[sid].expiresAt > t

SessionIds == 1..(MaxSessions + 1)

-----------------------------------------------------------------------------
(* generateQRSession                                                       *)

generateQRSessionStatus(user, classId, scheduleId, coordinates) ==
    IF role(user) # "teacher" THEN 403
    ELSE IF ~ValidCoordinates(coordinates) THEN 400
    ELSE IF classId \notin Classes THEN 404
    ELSE IF scheduleId # NoId /\ scheduleId \notin DOMAIN schedules THEN 404
    ELSE IF scheduleId # NoId /\ schedules[scheduleId].teacherId # user THEN 403
    ELSE IF ~SessionSaveHookOk(SessionDoc(classId, scheduleId, user,
                                          Len(sessions) + 1, coordinates, now))
         THEN 400
    ELSE 201

generateQRSession(user, classId, scheduleId, coordinates) ==
    /\ Len(sessions) < MaxSessions
    /\ sessions' =
          IF generateQRSessionStatus(user, classId, scheduleId, coordinates) = 201
          THEN Append(sessions, SessionDoc(classId, scheduleId, user,
                                           Len(sessions) + 1, coordinates, now))
          ELSE sessions
    /\ UNCHANGED <<schedules, clock, attendance, procs, probe>>

-----------------------------------------------------------------------------
(* refreshQRToken: the session is read, then saved. The save writes the    *)
(* paths whose new value differs from the value read, and fails when the   *)
(* document is no longer there.                                            *)

Idle == [pc |-> "idle"]

refreshQRTokenStatus(user, sid) ==
    IF role(user) # "teacher" THEN 403
    ELSE IF ~(ActiveSession(sessions, sid, now) /\ sessions[sid].teacherId = user)
         THEN 404
    ELSE 200

\* A refresh that signs a new token for the expiry the document has.
refreshedPathsKeepingExpiry(doc, timestamp) ==
    [token |-> jwtSign(doc.sessionId, doc.classId, timestamp, doc.expiresAt),
     timestamp |-> timestamp,
     expiresAt |-> doc.expiresAt]

\* What the handler has set on the document it read.
refreshedPaths(doc, timestamp) ==
    [token |-> jwtSign(doc.sessionId, doc.classId, timestamp,
                       timestamp + SessionLifetime),
     timestamp |-> timestamp,
     expiresAt |-> timestamp + SessionLifetime]

modifiedPaths(doc, set) ==
    {path \in {"token", "timestamp", "expiresAt"} : set[path] # doc[path]}

refreshQRTokenFind(p, user, sid) ==
    /\ procs[p].pc = "idle"
    /\ procs' =
          IF refreshQRTokenStatus(user, sid) = 200
          THEN [procs EXCEPT ![p] =
                   [pc |-> "refresh_save", sessionId |-> sid,
                    set |-> refreshedPaths(sessions[sid], now),
                    modified |-> modifiedPaths(sessions[sid],
                                    refreshedPaths(sessions[sid], now))]]
          ELSE procs
    /\ UNCHANGED <<schedules, clock, sessions, attendance, probe>>

refreshSaveStatus(store, r) ==
    IF ~SessionStored(store, r.sessionId) THEN 400
    ELSE IF ~SessionSaveHookOk(store[r.sessionId]) THEN 400
    ELSE 200

refreshSaveStore(store, r) ==
    IF refreshSaveStatus(store, r) = 200
    THEN [store EXCEPT ![r.sessionId] =
             [path \in DOMAIN @ |->
                 IF path \in r.modified THEN r.set[path] ELSE @[path]]]
    ELSE store

refreshQRTokenSave(p) ==
    /\ procs[p].pc = "refresh_save"
    /\ sessions' = refreshSaveStore(sessions, procs[p])
    /\ procs' = [procs EXCEPT ![p] = Idle]
    /\ UNCHANGED <<schedules, clock, attendance, probe>>

-----------------------------------------------------------------------------
(* terminateQRSession and terminateAllQRSessions: one update each.         *)

\* The update without its expiresAt.
TerminatedKeepingExpiry(doc, t) == [doc EXCEPT !.isActive = FALSE]

Terminated(doc, t) == [doc EXCEPT !.isActive = FALSE, !.expiresAt = t]

terminateQRSessionStatus(store, user, sid) ==
    IF role(user) # "teacher" THEN 403
    ELSE IF ~(/\ SessionStored(store, sid)
              /\ store[sid].teacherId = user
              /\ store[sid].isActive) THEN 404
    ELSE 200

terminateQRSessionStore(store, user, sid, t) ==
    IF terminateQRSessionStatus(store, user, sid) = 200
    THEN [store EXCEPT ![sid] = Terminated(@, t)]
    ELSE store

terminateQRSession(user, sid) ==
    /\ sessions' = terminateQRSessionStore(sessions, user, sid, now)
    /\ UNCHANGED <<schedules, clock, attendance, procs, probe>>

terminateAllQRSessionsStore(store, user, t) ==
    IF role(user) # "teacher" THEN store
    ELSE [i \in DOMAIN store |->
             IF store[i].stored /\ store[i].teacherId = user /\ store[i].isActive
             THEN Terminated(store[i], t)
             ELSE store[i]]

terminateAllQRSessions(user) ==
    /\ sessions' = terminateAllQRSessionsStore(sessions, user, now)
    /\ UNCHANGED <<schedules, clock, attendance, procs, probe>>

-----------------------------------------------------------------------------
(* validateQRToken                                                         *)

\* jwt.verify: the signature is the secret's and exp is ahead of the clock
\* read in whole seconds.
jwtVerify(token, t) == token.fmt = "jwt" /\ Seconds(t) < token.exp

\* The session id the token resolves to, NoId when it resolves to none.
tokenSessionId(token, t) ==
    IF token.fmt = "json"
    THEN IF token.sessionId # NoId THEN token.sessionId
         ELSE IF "token" \in DOMAIN token /\ token.token.fmt = "QR_" THEN token.token.sid
         ELSE NoId
    ELSE IF token.fmt = "QR_" THEN token.sid
    ELSE IF jwtVerify(token, t) THEN token.sid
    ELSE NoId

\* A validation that accepts only the token the session holds now.
validateQRTokenStatusComparingToken(store, user, token, t) ==
    IF role(user) # "student" THEN 403
    ELSE IF tokenSessionId(token, t) = NoId THEN 400
    ELSE IF ~ActiveSession(store, tokenSessionId(token, t), t) THEN 404
    ELSE IF store[tokenSessionId(token, t)].token # token THEN 404
    ELSE IF ~Enrolled(store[tokenSessionId(token, t)].classId, user) THEN 403
    ELSE 200

validateQRTokenStatus(store, user, token, t) ==
    IF role(user) # "student" THEN 403
    ELSE IF tokenSessionId(token, t) = NoId THEN 400
    ELSE IF ~ActiveSession(store, tokenSessionId(token, t), t) THEN 404
    ELSE IF ~Enrolled(store[tokenSessionId(token, t)].classId, user) THEN 403
    ELSE 200

validateQRToken(user, token) ==
    /\ validateQRTokenStatus(sessions, user, token, now) \in {200, 400, 403, 404}
    /\ UNCHANGED vars

-----------------------------------------------------------------------------
(* Time passing, and the TTL index on expiresAt deleting a document whose  *)
(* expiresAt has been reached, some time after.                            *)

Tick ==
    /\ clock < MaxClock
    /\ clock' = clock + 1
    /\ UNCHANGED <<schedules, sessions, attendance, procs, probe>>

Reap(sid) ==
    /\ SessionStored(sessions, sid)
    /\ sessions[sid].expiresAt <= now
    /\ sessions' = [sessions EXCEPT ![sid] = Removed]
    /\ UNCHANGED <<schedules, clock, attendance, procs, probe>>

-----------------------------------------------------------------------------
(* Present or late. An instant is a number of milliseconds since the start *)
(* of day 0 in UTC; the server's zone is utcOffsetMinutes ahead of UTC.    *)

LateThresholdMinutes == 15
InvalidDate == InvalidMoment

\* date.toISOString().split('T')[0], the day of the instant in UTC.
isoDay(ms) == ms \div MsPerDay

\* new Date(`${day}T${startTime}:00`): startTime on that day in the server's
\* zone, and no date when startTime is not two digits, a colon, two digits.
localDate(day, startTime, utcOffsetMinutes) ==
    IF ~MatchesStrictTimeFormat(startTime) THEN InvalidDate
    ELSE day * MsPerDay + (momentParse(startTime) - utcOffsetMinutes) * 60 * 1000

\* A comparison with an invalid date is false.
attendanceStatus(hasSchedule, startTime, at, utcOffsetMinutes) ==
    IF ~hasSchedule THEN "present"
    ELSE LET scheduleStart == localDate(isoDay(at), startTime, utcOffsetMinutes)
             lateThreshold == scheduleStart + LateThresholdMinutes * 60 * 1000
         IN  IF scheduleStart # InvalidDate /\ at <= lateThreshold
             THEN "present" ELSE "late"

\* The zone a server runs in.
ServerZone(utcOffsetMinutes) == [utcOffsetMinutes |-> utcOffsetMinutes]

statusAt(scheduleId, at) ==
    attendanceStatus(scheduleId # NoId,
                     IF scheduleId # NoId THEN schedules[scheduleId].startTime ELSE NoTime,
                     at, probe.utcOffsetMinutes)

-----------------------------------------------------------------------------
(* Attendance records. The place of a record in the collection is its _id. *)

AttendanceDoc(studentId, sessionId, classId, scheduleId, studentCoordinates, status, syncVersion, attendedAt) ==
    [studentId |-> studentId, sessionId |-> sessionId, classId |-> classId,
     scheduleId |-> scheduleId, studentCoordinates |-> studentCoordinates,
     attendedAt |-> attendedAt, syncVersion |-> syncVersion,
     manualEntry |-> FALSE, status |-> status]

\* attendanceSchema.pre('save'), for a record that is not a manual entry.
AttendanceSaveHookOk(doc) ==
    /\ doc.scheduleId # NoId =>
          /\ doc.scheduleId \in DOMAIN schedules
          /\ schedules[doc.scheduleId].classId = doc.classId
    /\ role(doc.studentId) = "student"
    /\ doc.classId \in Classes
    /\ SessionStored(sessions, doc.sessionId)
    /\ sessions[doc.sessionId].classId = doc.classId

\* The unique index { sessionId: 1, studentId: 1 }. It is sparse, and a
\* sparse index of two fields leaves out only the documents that have
\* neither: a manual entry, with its studentId and its sessionId of null, has
\* the key <<null, studentId>>.
AttendanceKey(doc) == <<doc.sessionId, doc.studentId>>

\* The index without its unique option.
AttendanceIndexNotUnique(store, doc) == FALSE

AttendanceDuplicateKey(store, doc) ==
    \E i \in DOMAIN store : AttendanceKey(store[i]) = AttendanceKey(doc)

AttendanceInsertOk(store, doc) ==
    AttendanceSaveHookOk(doc) /\ ~AttendanceDuplicateKey(store, doc)

\* Attendance.findOne({ sessionId, studentId }): the _id found, or NoId.
findAttendance(store, sessionId, studentId) ==
    IF \E i \in DOMAIN store :
          store[i].sessionId = sessionId /\ store[i].studentId = studentId
    THEN CHOOSE i \in DOMAIN store :
          store[i].sessionId = sessionId /\ store[i].studentId = studentId
    ELSE NoId

-----------------------------------------------------------------------------
(* submitAttendance: the checks, the last of them the read of the record   *)
(* of the pair, then the save.                                             *)

submitAttendanceStatus(student, b) ==
    IF role(student) # "student" THEN 403
    ELSE IF ~ActiveSession(sessions, b.sessionId, now) THEN 404
    ELSE IF ~Enrolled(b.classId, student) THEN 403
    ELSE IF b.scheduleId # NoId /\ b.scheduleId \notin DOMAIN schedules THEN 404
    ELSE IF ~(ValidCoordinates(b.studentCoordinates)
              /\ ValidCoordinates(sessions[b.sessionId].coordinates)) THEN 400
    ELSE IF TooFar(b.studentCoordinates, sessions[b.sessionId].coordinates) THEN 403
    ELSE IF findAttendance(attendance, b.sessionId, student) # NoId THEN 409
    ELSE 201

\* The error the response carries, "" with 201.
submitAttendanceError(student, b) ==
    IF role(student) # "student" THEN "Access denied"
    ELSE IF ~ActiveSession(sessions, b.sessionId, now) THEN "Invalid or expired QR session"
    ELSE IF ~Enrolled(b.classId, student) THEN "Not enrolled in this class"
    ELSE IF b.scheduleId # NoId /\ b.scheduleId \notin DOMAIN schedules
         THEN "Schedule not found"
    ELSE IF ~(ValidCoordinates(b.studentCoordinates)
              /\ ValidCoordinates(sessions[b.sessionId].coordinates))
         THEN "Invalid coordinates"
    ELSE IF TooFar(b.studentCoordinates, sessions[b.sessionId].coordinates)
         THEN "Student too far from class location"
    ELSE IF findAttendance(attendance, b.sessionId, student) # NoId
         THEN "Attendance already submitted for this session"
    ELSE ""

submitAttendanceFind(p, student, b) ==
    /\ procs[p].pc = "idle"
    /\ procs' =
          IF submitAttendanceStatus(student, b) = 201
          THEN [procs EXCEPT ![p] =
                   [pc |-> "submit_save",
                    data |-> AttendanceDoc(student, b.sessionId, b.classId,
                                           b.scheduleId, b.studentCoordinates,
                                           statusAt(b.scheduleId, now), 1, now)]]
          ELSE procs
    /\ UNCHANGED <<schedules, clock, sessions, attendance, probe>>

\* A save that throws is answered 400: none of its messages says
\* 'not found' or 'already submitted'.
submitSaveStatus(store, doc) == IF AttendanceInsertOk(store, doc) THEN 201 ELSE 400

submitAttendanceSave(p) ==
    /\ procs[p].pc = "submit_save"
    /\ attendance' =
          IF submitSaveStatus(attendance, procs[p].data) = 201
          THEN Append(attendance, procs[p].data)
          ELSE attendance
    /\ procs' = [procs EXCEPT ![p] = Idle]
    /\ UNCHANGED <<schedules, clock, sessions, probe>>

-----------------------------------------------------------------------------
(* syncAttendance: the items one after the other, each with its checks,    *)
(* the read of the record of the pair, and then the write; whatever an     *)
(* item throws is caught and collected.                                    *)

Result(status, error, data) == [status |-> status, error |-> error, data |-> data]

\* existing && existing.syncVersion >= syncVersion
NewerVersionExists(store, existing, syncVersion) ==
    existing # NoId /\ store[existing].syncVersion >= syncVersion

\* The checks of an item before the record of the pair is read: the error
\* of the first that fails, "" when all pass.
syncItemError(student, att) ==
    IF ~SessionStored(sessions, att.sessionId) THEN "Invalid session"
    ELSE IF ~Enrolled(att.classId, student) THEN "Not enrolled"
    ELSE IF att.scheduleId # NoId /\ att.scheduleId \notin DOMAIN schedules
         THEN "Invalid schedule"
    ELSE IF ~(ValidCoordinates(att.studentCoordinates)
              /\ ValidCoordinates(sessions[att.sessionId].coordinates))
         THEN "Invalid coordinates"
    ELSE IF TooFar(att.studentCoordinates, sessions[att.sessionId].coordinates)
         THEN "Location too far from class"
    ELSE ""

\* What the checks of an item come to: a result, or "write".
syncItemCheck(student, att) ==
    IF syncItemError(student, att) # ""
    THEN Result("failed", syncItemError(student, att), att)
    ELSE IF NewerVersionExists(attendance,
                               findAttendance(attendance, att.sessionId, student),
                               att.syncVersion)
         THEN Result("skipped", "Newer version exists", att)
    ELSE Result("write", "", att)

attendanceData(student, att) ==
    AttendanceDoc(student, att.sessionId, att.classId, att.scheduleId,
                  att.studentCoordinates, statusAt(att.scheduleId, att.attendedAt),
                  att.syncVersion, att.attendedAt)

\* updateOne({ _id }, { $set: attendanceData }): scheduleId is among the
\* keys only when the item has one.
setAttendanceData(doc, data) ==
    [data EXCEPT !.manualEntry = doc.manualEntry,
                 !.scheduleId = IF data.scheduleId = NoId THEN doc.scheduleId ELSE @]

syncWriteResult(store, existing, data, att) ==
    IF existing # NoId THEN Result("success", "", att)
    ELSE IF ~AttendanceSaveHookOk(data) THEN Result("failed", "Validation", att)
    ELSE IF AttendanceDuplicateKey(store, data)
         THEN Result("failed", "E11000 duplicate key", att)
    ELSE Result("success", "", att)

\* A write that inserts whether or not the pair has a record.
syncWriteStoreInserting(store, existing, data) ==
    IF existing # NoId \/ AttendanceInsertOk(store, data)
    THEN Append(store, data)
    ELSE store

syncWriteStore(store, existing, data) ==
    IF existing # NoId
    THEN [store EXCEPT ![existing] = setAttendanceData(@, data)]
    ELSE IF AttendanceInsertOk(store, data)
    THEN Append(store, data)
    ELSE store

\* A failure that ends the loop.
pushResultAbortingOnFailure(r, result) ==
    [pc |-> IF Len(r.results) + 1 = Len(r.attendances) \/ result.status = "failed"
            THEN "sync_respond" ELSE "sync_check",
     studentId |-> r.studentId,
     attendances |-> r.attendances,
     results |-> Append(r.results, result)]

\* After a result is pushed: the next item, or the response.
pushResult(r, result) ==
    [pc |-> IF Len(r.results) + 1 = Len(r.attendances)
            THEN "sync_respond" ELSE "sync_check",
     studentId |-> r.studentId,
     attendances |-> r.attendances,
     results |-> Append(r.results, result)]

currentItem(r) == r.attendances[Len(r.results) + 1]

syncAttendanceStart(p, student, items) ==
    /\ procs[p].pc = "idle"
    /\ procs' =
          IF role(student) = "student"
          THEN [procs EXCEPT ![p] =
                   [pc |-> "sync_check", studentId |-> student,
                    attendances |-> items, results |-> <<>>]]
          ELSE procs
    /\ UNCHANGED <<schedules, clock, sessions, attendance, probe>>

syncAttendanceCheck(p) ==
    /\ procs[p].pc = "sync_check"
    /\ LET r == procs[p]
           att == currentItem(r)
           c == syncItemCheck(r.studentId, att)
       IN  procs' =
              IF c.status = "write"
              THEN [procs EXCEPT ![p] =
                       [pc |-> "sync_write", studentId |-> r.studentId,
                        attendances |-> r.attendances, results |-> r.results,
                        existing |-> findAttendance(attendance, att.sessionId,
                                                    r.studentId),
                        data |-> attendanceData(r.studentId, att)]]
              ELSE [procs EXCEPT ![p] = pushResult(r, c)]
    /\ UNCHANGED <<schedules, clock, sessions, attendance, probe>>

syncAttendanceWrite(p) ==
    /\ procs[p].pc = "sync_write"
    /\ LET r == procs[p]
       IN  /\ attendance' = syncWriteStore(attendance, r.existing, r.data)
           /\ procs' = [procs EXCEPT ![p] =
                           pushResult(r, syncWriteResult(attendance, r.existing,
                                                         r.data, currentItem(r)))]
    /\ UNCHANGED <<schedules, clock, sessions, probe>>

\* The response: the counts of the results and the results.
syncResponse(results) ==
    [success |-> Cardinality({i \in DOMAIN results : results[i].status = "success"}),
     failed |-> Cardinality({i \in DOMAIN results : results[i].status = "failed"}),
     skipped |-> Cardinality({i \in DOMAIN results : results[i].status = "skipped"}),
     details |-> results]

syncAttendanceRespond(p) ==
    /\ procs[p].pc = "sync_respond"
    /\ syncResponse(procs[p].results).details = procs[p].results
    /\ procs' = [procs EXCEPT ![p] = Idle]
    /\ UNCHANGED <<schedules, clock, sessions, attendance, probe>>

-----------------------------------------------------------------------------
(* The requests the specifications below serve.                            *)

MaxVersion == 2
MaxBatch == 2

\* The schedules in the store while sessions and attendance are served.
StoredSchedules ==
    <<ScheduleDoc("c1", "t1", "Monday", TimeString(9, 0, TRUE), TimeString(10, 0, TRUE), "r1"),
      ScheduleDoc("c2", "t1", "Monday", TimeString(10, 0, TRUE), TimeString(11, 0, TRUE), "r1")>>

Procs == 1..MaxInFlight

\* "c3" is the id of no class.
GenerateClasses == {"c1", "c3"}
GenerateSchedules == {NoId} \cup (1..(Len(StoredSchedules) + 1))

\* The tokens a student may send: what a session holds now, a reference or
\* the scanned payload of any session id, a token signed at tick 0, and a
\* string that is none of these.
Tokens ==
    {sessions[i].token : i \in {j \in DOMAIN sessions : sessions[j].stored}}
        \cup {sessionReference(i) : i \in SessionIds}
        \cup {qrData(i) : i \in SessionIds \cup {NoId}}
        \cup {qrDataToken(sessionReference(i)) : i \in SessionIds}
        \cup {qrDataToken(sessions[i].token) : i \in {j \in DOMAIN sessions : sessions[j].stored}}
        \cup {jwtSign(i, "c1", Time(0), Time(0) + SessionLifetime) : i \in SessionIds}
        \cup {UnsignedToken}

SubmitBody(sessionId, classId, scheduleId, studentCoordinates) ==
    [sessionId |-> sessionId, classId |-> classId, scheduleId |-> scheduleId,
     studentCoordinates |-> studentCoordinates]

SubmitBodies ==
    {SubmitBody(s, c, k, x) :
        s \in 1..2, c \in Classes, k \in GenerateSchedules,
        x \in {Near, Far, NearAsString}}

SyncItem(sessionId, classId, scheduleId, studentCoordinates, syncVersion, attendedAt) ==
    [sessionId |-> sessionId, classId |-> classId, scheduleId |-> scheduleId,
     studentCoordinates |-> studentCoordinates, syncVersion |-> syncVersion,
     attendedAt |-> attendedAt]

AttendedAtInputs == {Time(0), Time(MaxClock)}

\* Items of session 1 that pass the checks while its document is stored, and
\* items that fail one check each.
SyncItems ==
    {SyncItem(1, "c1", k, Near, v, a) :
        k \in {NoId, 1}, v \in 1..MaxVersion, a \in AttendedAtInputs}
        \cup {SyncItem(2, "c1", NoId, Near, 1, Time(0)),
              SyncItem(1, "c2", NoId, Near, 1, Time(0)),
              SyncItem(1, "c1", 3, Near, 1, Time(0)),
              SyncItem(1, "c1", 2, Near, MaxVersion, Time(0)),
              SyncItem(1, "c1", 1, NearAsString, MaxVersion, Time(0)),
              SyncItem(1, "c1", 1, Far, MaxVersion, Time(0))}

SyncBatches == UNION {[1..n -> SyncItems] : n \in 1..MaxBatch}

\* Two requests in flight for one pair: the bodies and the batches of one item.
RaceBodies == {SubmitBody(1, "c1", NoId, Near)}
RaceBatches == {<<SyncItem(1, "c1", NoId, Near, v, Time(0))>> : v \in 1..MaxVersion}

-----------------------------------------------------------------------------
(* The schedule engine, from an empty store.                               *)

Init ==
    /\ schedules = <<>>
    /\ clock = 0
    /\ sessions = <<>>
    /\ attendance = <<>>
    /\ procs = [p \in Procs |-> Idle]
    /\ probe = ServerZone(0)

Next ==
    \/ \E u \in Users, b \in ScheduleBodies : createSchedule(u, b)
    \/ \E u \in Users, items \in BulkBatches : createBulkSchedules(u, items)
    \/ \E u \in Users, id \in ScheduleIds, p \in SchedulePatches : updateSchedule(u, id, p)
    \/ \E u \in Users, id \in ScheduleIds : deleteSchedule(u, id)
    \/ \E u \in Users, ids \in MergeRequests : mergeSchedules(u, ids)
    \/ \E u \in Users, id \in ScheduleIds, pts \in SplitRequests : splitSchedule(u, id, pts)
    \/ \E u \in Users, b \in ScheduleBodies : checkScheduleConflict(u, b)

Spec == Init /\ [][Next]_vars

-----------------------------------------------------------------------------
(* The session lifecycle: teachers generate, refresh and terminate         *)
(* sessions, students validate tokens, time passes and the TTL index       *)
(* deletes; a refresh in flight is interleaved with all of these.          *)

InitSession ==
    /\ schedules = StoredSchedules
    /\ clock = 0
    /\ sessions = <<>>
    /\ attendance = <<>>
    /\ procs = [p \in Procs |-> Idle]
    /\ probe = ServerZone(0)

NextSession ==
    \/ \E u \in Teachers, c \in GenerateClasses, k \in GenerateSchedules :
          generateQRSession(u, c, k, Classroom)
    \/ \E u \in Teachers, sid \in SessionIds : refreshQRTokenFind(1, u, sid)
    \/ refreshQRTokenSave(1)
    \/ \E u \in Teachers, sid \in SessionIds : terminateQRSession(u, sid)
    \/ \E u \in Teachers : terminateAllQRSessions(u)
    \/ \E u \in {"s1", "s3"}, token \in Tokens : validateQRToken(u, token)
    \/ Tick
    \/ \E sid \in SessionIds : Reap(sid)

SpecSession == InitSession /\ [][NextSession]_vars

-----------------------------------------------------------------------------
(* Attendance for one session, one request at a time, while the session is *)
(* terminated, expires and is deleted.                                     *)

InitAttendance ==
    /\ schedules = StoredSchedules
    /\ clock = 0
    /\ sessions = <<SessionDoc("c1", 1, "t1", 1, Classroom, Time(0))>>
    /\ attendance = <<>>
    /\ procs = [p \in Procs |-> Idle]
    /\ probe = ServerZone(0)

NextAttendance ==
    \/ \E b \in SubmitBodies : submitAttendanceFind(1, "s1", b)
    \/ submitAttendanceSave(1)
    \/ \E items \in SyncBatches : syncAttendanceStart(1, "s1", items)
    \/ syncAttendanceCheck(1)
    \/ syncAttendanceWrite(1)
    \/ syncAttendanceRespond(1)
    \/ terminateQRSession("t1", 1)
    \/ Tick
    \/ Reap(1)

SpecAttendance == InitAttendance /\ [][NextAttendance]_vars

-----------------------------------------------------------------------------
(* Attendance for one session, the requests of two students in flight      *)
(* together.                                                               *)

NextRace ==
    \/ \E p \in Procs, s \in {"s1", "s2"}, b \in RaceBodies : submitAttendanceFind(p, s, b)
    \/ \E p \in Procs : submitAttendanceSave(p)
    \/ \E p \in Procs, s \in {"s1", "s2"}, items \in RaceBatches :
          syncAttendanceStart(p, s, items)
    \/ \E p \in Procs : syncAttendanceCheck(p)
    \/ \E p \in Procs : syncAttendanceWrite(p)
    \/ \E p \in Procs : syncAttendanceRespond(p)

SpecRace == InitAttendance /\ [][NextRace]_vars

-----------------------------------------------------------------------------
(* Present or late, as a function: a submission some minutes after the     *)
(* start of a schedule, on day 1 of the server's zone.                     *)

LateZones == {-300, 0, 330}
LateHours == {4, 9, 20}
MinutesAfter == {0, 9, 15, 16}

LateProbe(zone, hasSchedule, startTime, minutesAfter, ms) ==
    [utcOffsetMinutes |-> zone, hasSchedule |-> hasSchedule, startTime |-> startTime,
     minutesAfter |-> minutesAfter,
     at |-> MsPerDay + (momentParse(startTime) - zone + minutesAfter) * 60 * 1000 + ms,
     status |-> "none"]

LateProbes ==
    {LateProbe(z, h, TimeString(hr, 0, pad), m, ms) :
        z \in LateZones, h \in BOOLEAN, hr \in LateHours, pad \in BOOLEAN,
        m \in MinutesAfter, ms \in 0..1}

InitLate ==
    /\ schedules = <<>>
    /\ clock = 0
    /\ sessions = <<>>
    /\ attendance = <<>>
    /\ procs = [p \in Procs |-> Idle]
    /\ probe \in LateProbes

determineStatus ==
    /\ probe.status = "none"
    /\ probe' = [probe EXCEPT !.status =
                    attendanceStatus(probe.hasSchedule, probe.startTime, probe.at,
                                     probe.utcOffsetMinutes)]
    /\ UNCHANGED <<schedules, clock, sessions, attendance, procs>>

NextLate == determineStatus

SpecLate == InitLate /\ [][NextLate]_vars

-----------------------------------------------------------------------------
(* The schedule invariant.                                                 *)

\* [a.startTime, a.endTime) and [b.startTime, b.endTime) meet, as times of day.
Overlap(a, b) ==
    /\ momentParse(a.startTime) < momentParse(b.endTime)
    /\ momentParse(b.startTime) < momentParse(a.endTime)

\* C1: no two active schedules of one teacher on one day overlap as half-open
\* intervals of the day, whatever schedule requests were served.
C1_NoActiveOverlap ==
    \A i, j \in DOMAIN schedules :
        (/\ i # j
         /\ schedules[i].isActive /\ schedules[j].isActive
         /\ schedules[i].teacherId = schedules[j].teacherId
         /\ schedules[i].dayOfWeek = schedules[j].dayOfWeek)
            => ~Overlap(schedules[i], schedules[j])

-----------------------------------------------------------------------------
(* One record for a session and a student.                                 *)

\* C2: at any time, under any interleaving of submitAttendance and
\* syncAttendance requests, no two records that are not manual entries are of
\* the same session and the same student.
C2_OneRecordPerPair ==
    \A i, j \in DOMAIN attendance :
        (i # j /\ ~attendance[i].manualEntry /\ ~attendance[j].manualEntry)
            => ~(/\ attendance[i].sessionId = attendance[j].sessionId
                 /\ attendance[i].studentId = attendance[j].studentId)

\* Two requests for one pair both found no record; one has saved its record
\* and the insert of the other was refused.
C2_Witness_SecondInsertRefused ==
    \E p \in Procs :
        /\ procs[p].pc = "sync_respond"
        /\ procs[p].results[1].error = "E11000 duplicate key"
        /\ findAttendance(attendance, procs[p].attendances[1].sessionId,
                          procs[p].studentId) # NoId

-----------------------------------------------------------------------------
(* The lifetime of a session.                                              *)

C4_ValidateIffActive ==
    \A i \in DOMAIN sessions : \A u \in Students :
        (sessions[i].stored /\ Enrolled(sessions[i].classId, u)) =>
            (validateQRTokenStatus(sessions, u, sessions[i].token, now) = 200
                <=> (sessions[i].isActive /\ now < sessions[i].expiresAt))

\* C5: a session that does not satisfy isActive && now < expiresAt never
\* satisfies it again, whatever requests are served and however a refresh in
\* flight is interleaved with them, and a refresh of it is answered 404.
C5_InactiveIsTerminal ==
    [][\A i \in DOMAIN sessions :
          ~ActiveSession(sessions, i, now) =>
              /\ ~ActiveSession(sessions', i, Time(clock'))
              /\ \A u \in Teachers : refreshQRTokenStatus(u, i) = 404]_vars

-----------------------------------------------------------------------------
(* The items of a sync.                                                    *)

\* The step of a request from one of its positions.
StepFrom(p, pc) == procs[p].pc = pc /\ procs'[p] # procs[p]

\* The result the step has pushed.
Pushed(p) == procs'[p].results[Len(procs[p].results) + 1]

\* The record of the pair of the item the request is at, NoId when none.
RecordOfItem(p) ==
    findAttendance(attendance, currentItem(procs[p]).sessionId, procs[p].studentId)

\* The record holds what the item carries, and the status that follows.
HoldsItem(doc, student, att) ==
    /\ doc.studentId = student
    /\ doc.sessionId = att.sessionId
    /\ doc.classId = att.classId
    /\ doc.scheduleId = att.scheduleId
    /\ doc.studentCoordinates = att.studentCoordinates
    /\ doc.attendedAt = att.attendedAt
    /\ doc.syncVersion = att.syncVersion
    /\ doc.status = statusAt(att.scheduleId, att.attendedAt)

\* C6: a sync item whose session is terminated or past its expiresAt, its
\* document deleted or not, is marked failed when it is checked, is not
\* written, and leaves the records as they are.
C6_SyncRejectsInactiveSession ==
    [][\A p \in Procs :
          (/\ StepFrom(p, "sync_check")
           /\ ~ActiveSession(sessions, currentItem(procs[p]).sessionId, now)) =>
              /\ procs'[p].pc # "sync_write"
              /\ Pushed(p).status = "failed"
              /\ attendance' = attendance]_vars

\* C7: for an item that passes the checks (and, where a record is created,
\* the validation of the save): when the pair has a record of the same or a
\* higher syncVersion the item is skipped and the records stay as they are;
\* when the record's syncVersion is lower that record is overwritten and none
\* is added; when the pair has no record exactly one is added, with the
\* item's syncVersion.
C7_SyncVersionRule ==
    [][\A p \in Procs :
          /\ (/\ StepFrom(p, "sync_check")
              /\ syncItemError(procs[p].studentId, currentItem(procs[p])) = ""
              /\ RecordOfItem(p) # NoId
              /\ attendance[RecordOfItem(p)].syncVersion
                    >= currentItem(procs[p]).syncVersion) =>
                 /\ Pushed(p).status = "skipped"
                 /\ attendance' = attendance
          /\ (/\ StepFrom(p, "sync_write")
              /\ RecordOfItem(p) # NoId
              /\ attendance[RecordOfItem(p)].syncVersion
                    < currentItem(procs[p]).syncVersion) =>
                 /\ Pushed(p).status = "success"
                 /\ Len(attendance') = Len(attendance)
                 /\ attendance'[RecordOfItem(p)].syncVersion
                       = currentItem(procs[p]).syncVersion
                 /\ attendance'[RecordOfItem(p)].sessionId
                       = attendance[RecordOfItem(p)].sessionId
                 /\ attendance'[RecordOfItem(p)].studentId
                       = attendance[RecordOfItem(p)].studentId
                 /\ \A j \in DOMAIN attendance :
                       j # RecordOfItem(p) => attendance'[j] = attendance[j]
          /\ (/\ StepFrom(p, "sync_write")
              /\ RecordOfItem(p) = NoId
              /\ AttendanceSaveHookOk(procs[p].data)) =>
                 /\ Pushed(p).status = "success"
                 /\ Len(attendance') = Len(attendance) + 1
                 /\ attendance'[Len(attendance) + 1].syncVersion
                       = currentItem(procs[p]).syncVersion
                 /\ attendance'[Len(attendance) + 1].sessionId
                       = currentItem(procs[p]).sessionId
                 /\ attendance'[Len(attendance) + 1].studentId = procs[p].studentId
                 /\ \A j \in DOMAIN attendance : attendance'[j] = attendance[j]]_vars

\* A batch of a version 1 item and a version 2 item of one pair is done: the
\* first created the record, the second overwrote it, and a third item of
\* version 1 would now be skipped.
C7_Witness_CreatedThenOverwritten ==
    \E p \in Procs :
        /\ procs[p].pc = "sync_respond"
        /\ Len(procs[p].results) = 2
        /\ procs[p].results[1].status = "success"
        /\ procs[p].results[2].status = "success"
        /\ procs[p].attendances[1].syncVersion < procs[p].attendances[2].syncVersion
        /\ Len(attendance) = 1
        /\ attendance[1].syncVersion = procs[p].attendances[2].syncVersion

\* C8: an item that the record of its pair already holds is
\* skipped when it is sent again, in the same batch or a later one, and the
\* records stay as they are; an item of a higher syncVersion than the record
\* leaves the record holding that item, whatever the attendedAt of the two.
C8_SyncIdempotent ==
    [][\A p \in Procs :
          /\ (/\ StepFrom(p, "sync_check")
              /\ RecordOfItem(p) # NoId
              /\ HoldsItem(attendance[RecordOfItem(p)], procs[p].studentId,
                           currentItem(procs[p]))) =>
                 /\ Pushed(p).status = "skipped"
                 /\ attendance' = attendance
          /\ (/\ StepFrom(p, "sync_write")
              /\ RecordOfItem(p) # NoId
              /\ attendance[RecordOfItem(p)].syncVersion
                    < currentItem(procs[p]).syncVersion) =>
                 HoldsItem(attendance'[RecordOfItem(p)], procs[p].studentId,
                           currentItem(procs[p]))]_vars

\* C9: a sync gives each item of the batch one result, success, failed or
\* skipped, in the order of the batch; an item that fails or throws does not
\* end the loop; the response is given when every item has its result, its
\* details are as many as the items and its three counts add up to that.
C9_OneOutcomePerItem ==
    \A p \in Procs :
        procs[p].pc \in {"sync_check", "sync_write", "sync_respond"} =>
            /\ \A i \in DOMAIN procs[p].results :
                  /\ procs[p].results[i].status \in {"success", "failed", "skipped"}
                  /\ i <= Len(procs[p].attendances)
                  /\ procs[p].results[i].data = procs[p].attendances[i]
            /\ procs[p].pc # "sync_respond" =>
                  Len(procs[p].results) < Len(procs[p].attendances)
            /\ procs[p].pc = "sync_respond" =>
                  /\ Len(syncResponse(procs[p].results).details) = Len(procs[p].attendances)
                  /\ syncResponse(procs[p].results).success
                        + syncResponse(procs[p].results).failed
                        + syncResponse(procs[p].results).skipped
                        = Len(procs[p].attendances)

\* A batch is done whose first item threw on its coordinates and whose
\* second item was written.
C9_Witness_FailedThenSuccess ==
    \E p \in Procs :
        /\ procs[p].pc = "sync_respond"
        /\ Len(procs[p].attendances) = 2
        /\ procs[p].results[1].status = "failed"
        /\ procs[p].results[1].error = "Invalid coordinates"
        /\ procs[p].results[2].status = "success"
        /\ syncResponse(procs[p].results).failed = 1
        /\ syncResponse(procs[p].results).success = 1

-----------------------------------------------------------------------------
(* Present or late.                                                        *)

\* C10: with a threshold of 15 minutes, a submission with a schedule is late
\* 15 minutes after the schedule's start and present 9 minutes after it, and
\* a submission without a schedule is present.
C10_LateAtFifteenMinutes ==
    ("status" \in DOMAIN probe /\ probe.status # "none") =>
        /\ ~probe.hasSchedule => probe.status = "present"
        /\ (probe.hasSchedule /\ probe.minutesAfter = 15) => probe.status = "late"
        /\ (probe.hasSchedule /\ probe.minutesAfter = 9) => probe.status = "present"

-----------------------------------------------------------------------------
(* The distance of a student from the classroom.                           *)

\* The submission passes what submitAttendance checks before the distance,
\* and its coordinates are numbers.
ReachesDistanceCheck(student, b) ==
    /\ role(student) = "student"
    /\ ActiveSession(sessions, b.sessionId, now)
    /\ Enrolled(b.classId, student)
    /\ b.scheduleId # NoId => b.scheduleId \in DOMAIN schedules
    /\ ValidCoordinates(b.studentCoordinates)

\* The student of the item is farther from where the session was issued
\* than the maximum, in millimetres.
BeyondMaximum(coordinates, sid) ==
    calculateDistance(coordinates, sessions[sid].coordinates)
        > MaxAttendanceDistanceMeters * 1000

\* C11: a submission, and a sync item, that comes to the distance check with
\* coordinates that are numbers is refused with the proximity error, and no
\* record is written, when the student is farther than the maximum (100 m)
\* from the coordinates of the session; it is not refused for proximity when
\* the student is at most that far: 150 m is refused, 50 m is not.
C11_ProximityRule ==
    /\ [](\A student \in Students : \A b \in SubmitBodies :
             ReachesDistanceCheck(student, b) =>
                /\ BeyondMaximum(b.studentCoordinates, b.sessionId) =>
                      /\ submitAttendanceStatus(student, b) = 403
                      /\ submitAttendanceError(student, b)
                            = "Student too far from class location"
                /\ ~BeyondMaximum(b.studentCoordinates, b.sessionId) =>
                      submitAttendanceError(student, b)
                         # "Student too far from class location"
                /\ b.studentCoordinates = Far =>
                      submitAttendanceStatus(student, b) = 403
                /\ b.studentCoordinates = Near =>
                      submitAttendanceStatus(student, b) \in {201, 409})
    /\ [][\A p \in Procs :
            /\ (StepFrom(p, "idle") /\ procs'[p].pc = "submit_save") =>
                  ~BeyondMaximum(procs'[p].data.studentCoordinates,
                                 procs'[p].data.sessionId)
            /\ (/\ StepFrom(p, "sync_check")
                /\ SessionStored(sessions, currentItem(procs[p]).sessionId)
                /\ Enrolled(currentItem(procs[p]).classId, procs[p].studentId)
                /\ currentItem(procs[p]).scheduleId # NoId =>
                      currentItem(procs[p]).scheduleId \in DOMAIN schedules
                /\ ValidCoordinates(currentItem(procs[p]).studentCoordinates)) =>
                  IF BeyondMaximum(currentItem(procs[p]).studentCoordinates,
                                   currentItem(procs[p]).sessionId)
                  THEN /\ Pushed(p).status = "failed"
                       /\ Pushed(p).error = "Location too far from class"
                       /\ attendance' = attendance
                  ELSE \/ procs'[p].pc = "sync_write"
                       \/ Pushed(p).status = "skipped"]_vars

\* A batch is done whose first item, 150 m away, was refused for its
\* distance and whose second, 50 m away, was written.
C11_Witness_FarRefusedNearWritten ==
    \E p \in Procs :
        /\ procs[p].pc = "sync_respond"
        /\ Len(procs[p].attendances) = 2
        /\ procs[p].attendances[1].studentCoordinates = Far
        /\ procs[p].results[1].status = "failed"
        /\ procs[p].results[1].error = "Location too far from class"
        /\ procs[p].attendances[2].studentCoordinates = Near
        /\ procs[p].results[2].status = "success"
        /\ Len(attendance) = 1
        /\ attendance[1].studentCoordinates = Near

-----------------------------------------------------------------------------
(* The second submission of a pair.                                        *)

\* C12: a submission for a pair that has a record is answered 409, and so
\* is the save of a submission that found no record when another request
\* has saved the record of the pair in between.
C12_DuplicateIsConflict ==
    /\ [](\A student \in Students : \A b \in SubmitBodies :
             (/\ ReachesDistanceCheck(student, b)
              /\ ~BeyondMaximum(b.studentCoordinates, b.sessionId)
              /\ findAttendance(attendance, b.sessionId, student) # NoId) =>
                 submitAttendanceStatus(student, b) = 409)
    /\ [][\A p \in Procs :
            (/\ StepFrom(p, "submit_save")
             /\ AttendanceDuplicateKey(attendance, procs[p].data)) =>
                /\ submitSaveStatus(attendance, procs[p].data) = 409
                /\ attendance' = attendance]_vars

-----------------------------------------------------------------------------
(* The conflict test of the schedule requests.                             *)

\* C13: for every stored active schedule and every candidate the request
\* validation accepts, hours written with one digit included, the conflict
\* query of createSchedule, updateSchedule and checkScheduleConflict finds
\* the schedule exactly when existing.start < candidate.end and
\* candidate.start < existing.end as times of day.
C13_ConflictTestIsOverlap ==
    \A i \in DOMAIN schedules : \A b \in ScheduleBodies :
        (/\ schedules[i].isActive
         /\ schedules[i].teacherId = b.teacherId
         /\ schedules[i].dayOfWeek = b.dayOfWeek) =>
            (i \in conflictingSchedule(schedules, NoId, b.teacherId, b.dayOfWeek,
                                       b.startTime, b.endTime)
                <=> Overlap(schedules[i], b))

\* Every time string of the store and of the patch has a two-digit hour.
TwoDigitHours(store, p) ==
    /\ \A i \in DOMAIN store :
          MatchesStrictTimeFormat(store[i].startTime)
              /\ MatchesStrictTimeFormat(store[i].endTime)
    /\ p.startTime # NoTime => MatchesStrictTimeFormat(p.startTime)
    /\ p.endTime # NoTime => MatchesStrictTimeFormat(p.endTime)

\* C14: a patch with a teacher and a day that updateSchedule accepts leaves
\* the schedule, when it is active, overlapping no other active schedule of
\* that teacher and day, also when the patch carries no times;
\* a patch for an id of no schedule is answered 404 and changes nothing.
C14_UpdateRechecksOverlap ==
    \A user \in Users : \A id \in ScheduleIds : \A p \in SchedulePatches :
        (TeacherIdAllowed(user, p.teacherId) /\ TwoDigitHours(schedules, p)) =>
            /\ id \notin DOMAIN schedules =>
                  /\ updateScheduleStatus(schedules, user, id, p) = 404
                  /\ updateScheduleStore(schedules, user, id, p) = schedules
            /\ (/\ id \in DOMAIN schedules
                /\ p.dayOfWeek # Undef
                /\ updateScheduleStatus(schedules, user, id, p) = 200) =>
                  LET store == updateScheduleStore(schedules, user, id, p)
                  IN  \A j \in DOMAIN store :
                         (/\ j # id
                          /\ store[id].isActive /\ store[j].isActive
                          /\ store[j].teacherId = store[id].teacherId
                          /\ store[j].dayOfWeek = store[id].dayOfWeek) =>
                             ~Overlap(store[id], store[j])

-----------------------------------------------------------------------------
(* The schedule state machine.                                             *)

\* C15: no request of the schedule engine turns a schedule whose isActive is
\* false back to active, and none removes a schedule from the store.
C15_InactiveScheduleStaysInactive ==
    [][/\ Len(schedules') >= Len(schedules)
       /\ \A i \in DOMAIN schedules :
             ~schedules[i].isActive => ~schedules'[i].isActive]_vars

\* Distinct ids of active schedules that share class, teacher, day and room,
\* sent by their teacher or an admin.
MergeableInputs(store, user, ids) ==
    /\ \A k \in DOMAIN ids : ids[k] \in DOMAIN store /\ store[ids[k]].isActive
    /\ \A k, l \in DOMAIN ids : k # l => ids[k] # ids[l]
    /\ \A k \in DOMAIN ids :
          /\ store[ids[k]].classId = store[ids[1]].classId
          /\ store[ids[k]].teacherId = store[ids[1]].teacherId
          /\ store[ids[k]].dayOfWeek = store[ids[1]].dayOfWeek
          /\ store[ids[k]].roomNumber = store[ids[1]].roomNumber
    /\ IsOwnerOrAdmin(user, store[ids[1]])

\* C16: mergeSchedules on two or more active schedules of one class, teacher,
\* day and room is answered 200, adds exactly one active schedule running
\* from the earliest start to the latest end, and leaves every input inactive.
C16_MergeYieldsUnion ==
    \A user \in Users : \A ids \in MergeRequests :
        MergeableInputs(schedules, user, ids) =>
            LET store == mergeSchedulesStore(schedules, user, ids)
                new == Len(schedules) + 1
            IN  /\ mergeSchedulesStatus(schedules, user, ids) = 200
                /\ Len(store) = new
                /\ store[new].isActive
                /\ momentParse(store[new].startTime)
                      = SeqMin([k \in DOMAIN ids |-> momentParse(schedules[ids[k]].startTime)])
                /\ momentParse(store[new].endTime)
                      = SeqMax([k \in DOMAIN ids |-> momentParse(schedules[ids[k]].endTime)])
                /\ \A k \in DOMAIN ids : ~store[ids[k]].isActive

-----------------------------------------------------------------------------
(* splitSchedule and mergeSchedules in flight together: a split request    *)
(* is a process that reads the original, saves its pieces one save at a    *)
(* time and then saves the original as inactive; the store is read and     *)
(* written by the other requests between any two of these.                 *)

\* Schedule.findById(id) and the checks before the loop.
splitScheduleFind(p, user, id, splitPoints) ==
    /\ procs[p] = Idle
    /\ LET admitted == /\ \A k \in DOMAIN splitPoints :
                             MatchesStrictTimeFormat(splitPoints[k])
                       /\ id \in DOMAIN schedules
                       /\ IsOwnerOrAdmin(user, schedules[id])
       IN  procs' = IF admitted
                    THEN [procs EXCEPT ![p] =
                            [pc |-> "split_loop", id |-> id,
                             originalSchedule |-> schedules[id],
                             splitTimes |-> Append(splitPoints, schedules[id].endTime),
                             currentStartTime |-> momentParse(schedules[id].startTime),
                             newSchedules |-> <<>>]]
                    ELSE procs
    /\ UNCHANGED <<schedules, clock, sessions, attendance, probe>>

\* One turn of the loop: the check of the split point and newSchedule.save().
splitScheduleSave(p) ==
    /\ procs[p].pc = "split_loop"
    /\ Len(schedules) < MaxSchedules
    /\ LET d == procs[p]
           r == splitLoop(schedules, d.originalSchedule, <<Head(d.splitTimes)>>,
                          d.currentStartTime)
       IN  /\ schedules' = r.store
           /\ procs' = [procs EXCEPT ![p] =
                 IF ~r.ok THEN Idle
                 ELSE [d EXCEPT
                         !.pc = IF Tail(d.splitTimes) = <<>>
                                THEN "split_deactivate" ELSE "split_loop",
                         !.splitTimes = Tail(d.splitTimes),
                         !.currentStartTime = momentParse(Head(d.splitTimes)),
                         !.newSchedules = Append(@, Len(r.store))]]
    /\ UNCHANGED <<clock, sessions, attendance, probe>>

\* originalSchedule.isActive = false; originalSchedule.save()
splitScheduleDeactivate(p) ==
    /\ procs[p].pc = "split_deactivate"
    /\ schedules' = IF ScheduleSaveHookOk(procs[p].originalSchedule)
                    THEN [schedules EXCEPT ![procs[p].id].isActive = FALSE]
                    ELSE schedules
    /\ procs' = [procs EXCEPT ![p] = Idle]
    /\ UNCHANGED <<clock, sessions, attendance, probe>>

\* The requests of teacher t1, the split requests with one split point.
SplitRaceRequests == {pts \in SplitRequests : Len(pts) = 1}

NextSplit ==
    \/ \E b \in BulkBodies : createSchedule("t1", b)
    \/ \E id \in ScheduleIds : deleteSchedule("t1", id)
    \/ \E ids \in MergeRequests : mergeSchedules("t1", ids)
    \/ \E p \in Procs, id \in ScheduleIds, pts \in SplitRaceRequests :
          splitScheduleFind(p, "t1", id, pts)
    \/ \E p \in Procs : splitScheduleSave(p)
    \/ \E p \in Procs : splitScheduleDeactivate(p)

SpecSplit == Init /\ [][NextSplit]_vars

\* The pieces the request has saved are in the store and its original is
\* still active.
HalfSplit(store, d) ==
    /\ d.newSchedules # <<>>
    /\ store[d.id].isActive
    /\ \E k \in DOMAIN d.newSchedules : store[d.newSchedules[k]].isActive

\* C17: no state shows the pieces of a split active next to its still active
\* original, neither while the request is in flight nor after it has failed
\* between two of its writes; and a merge never leaves its inputs inactive
\* without the merged schedule, or the merged schedule next to active inputs.
C17_MergeAndSplitAtomic ==
    /\ [](\A p \in Procs :
             procs[p].pc \in {"split_loop", "split_deactivate"} =>
                 ~HalfSplit(schedules, procs[p]))
    /\ [][\A p \in Procs :
            (StepFrom(p, "split_loop") /\ procs'[p] = Idle) =>
                ~HalfSplit(schedules', procs[p])]_vars
    /\ [][\A u \in Users : \A ids \in MergeRequests :
            mergeSchedules(u, ids) =>
                \/ schedules' = schedules
                \/ /\ Len(schedules') = Len(schedules) + 1
                   /\ \A k \in DOMAIN ids : ~schedules'[ids[k]].isActive]_vars

-----------------------------------------------------------------------------
(* The results of splitSchedule.                                           *)

\* Split points that increase strictly and lie strictly inside the schedule.
StrictlyInside(doc, splitPoints) ==
    /\ \A k \in DOMAIN splitPoints :
          /\ MatchesStrictTimeFormat(splitPoints[k])
          /\ momentParse(doc.startTime) < momentParse(splitPoints[k])
          /\ momentParse(splitPoints[k]) < momentParse(doc.endTime)
    /\ \A k \in 1..(Len(splitPoints) - 1) :
          momentParse(splitPoints[k]) < momentParse(splitPoints[k + 1])

\* C18: splitSchedule on an active schedule, with k split points that
\* increase strictly inside it, is answered 200, adds exactly k+1 active
\* schedules that run from the start to the first point, from each point to
\* the next and from the last point to the end, each with the original's
\* class, teacher, day and room, and leaves the original inactive.
C18_SplitYieldsContiguousPieces ==
    \A user \in Users : \A id \in DOMAIN schedules : \A pts \in SplitRequests :
        (/\ schedules[id].isActive
         /\ IsOwnerOrAdmin(user, schedules[id])
         /\ StrictlyInside(schedules[id], pts)) =>
            LET r == splitScheduleResult(schedules, user, id, pts)
                n == Len(schedules)
                cuts == <<schedules[id].startTime>> \o pts \o <<schedules[id].endTime>>
            IN  /\ r.status = 200
                /\ Len(r.store) = n + Len(pts) + 1
                /\ ~r.store[id].isActive
                /\ \A k \in 1..(Len(pts) + 1) :
                      /\ r.store[n + k].isActive
                      /\ momentParse(r.store[n + k].startTime) = momentParse(cuts[k])
                      /\ momentParse(r.store[n + k].endTime) = momentParse(cuts[k + 1])
                      /\ r.store[n + k].classId = schedules[id].classId
                      /\ r.store[n + k].teacherId = schedules[id].teacherId
                      /\ r.store[n + k].dayOfWeek = schedules[id].dayOfWeek
                      /\ r.store[n + k].roomNumber = schedules[id].roomNumber
                /\ \A i \in 1..n : i # id => r.store[i] = schedules[i]

\* C19: when a split point of the HH:mm format is not strictly after the one
\* before it, is not after the start or is not before the end of the
\* schedule, splitSchedule is answered 400 and the store is as it was: no
\* piece is stored and the original is as active as before.
C19_FailedSplitChangesNothing ==
    \A user \in Users : \A id \in DOMAIN schedules : \A pts \in SplitRequests :
        (/\ IsOwnerOrAdmin(user, schedules[id])
         /\ \A k \in DOMAIN pts : MatchesStrictTimeFormat(pts[k])
         /\ ~StrictlyInside(schedules[id], pts)) =>
            /\ splitScheduleResult(schedules, user, id, pts).status = 400
            /\ splitScheduleResult(schedules, user, id, pts).store = schedules

-----------------------------------------------------------------------------
(* Token resolution.                                                       *)

\* The three encodings of a session id.
IsStructuredPayload(token) == token.fmt = "json" /\ token.sessionId # NoId
IsShortReference(token) == token.fmt = "QR_" /\ token.sid # NoId
IsSignedToken(token) == token.fmt = "jwt" /\ token.sid # NoId

\* C20: validateQRToken resolves a payload with a sessionId field to that
\* field, else a 'QR_' reference to the id after the prefix, else a token
\* signed with the secret to the session id of its claims, and answers a
\* student 400 exactly when the token is none of the three.
C20_TokenResolutionOrder ==
    \A token \in Tokens :
        /\ IsStructuredPayload(token) => tokenSessionId(token, now) = token.sessionId
        /\ IsShortReference(token) => tokenSessionId(token, now) = token.sid
        /\ IsSignedToken(token) => tokenSessionId(token, now) = token.sid
        /\ validateQRTokenStatus(sessions, "s1", token, now) = 400
              <=> ~(\/ IsStructuredPayload(token)
                    \/ IsShortReference(token)
                    \/ IsSignedToken(token))

-----------------------------------------------------------------------------
(* What generateQRSession persists.                                        *)

\* C21: a step that adds a session adds one active session with an id no
\* session had, expiring a session lifetime after now, of a class that
\* exists and, when it names a schedule, of a schedule that exists, is of
\* that class and is the requesting teacher's; every request that fails one
\* of these is answered with an error and stores nothing.
C21_GeneratePersistsOnlyWhenValid ==
    /\ [][Len(sessions') > Len(sessions) =>
            LET new == Len(sessions) + 1
                doc == sessions'[new]
            IN  /\ Len(sessions') = new
                /\ \A i \in DOMAIN sessions : sessions'[i] = sessions[i]
                /\ doc.stored /\ doc.isActive
                /\ doc.expiresAt = now + SessionLifetime
                /\ \A i \in DOMAIN sessions :
                      sessions[i].stored => sessions[i].sessionId # doc.sessionId
                /\ doc.classId \in Classes
                /\ doc.scheduleId # NoId =>
                      /\ doc.scheduleId \in DOMAIN schedules
                      /\ schedules[doc.scheduleId].classId = doc.classId
                      /\ schedules[doc.scheduleId].teacherId = doc.teacherId]_vars
    /\ [](\A u \in Teachers : \A c \in GenerateClasses : \A k \in GenerateSchedules :
             (\/ c \notin Classes
              \/ k # NoId /\ (\/ k \notin DOMAIN schedules
                              \/ schedules[k].classId # c
                              \/ schedules[k].teacherId # u)) =>
                 generateQRSessionStatus(u, c, k, Classroom) \in {400, 403, 404})

\* A session of a schedule has been stored, and a request naming a schedule
\* of another class is refused.
C21_Witness_SessionOfSchedule ==
    /\ \E i \in DOMAIN sessions : sessions[i].stored /\ sessions[i].scheduleId # NoId
    /\ generateQRSessionStatus("t1", "c1", 2, Classroom) = 400

-----------------------------------------------------------------------------
(* manualAttendance: the checks, the last of them the read of the record   *)
(* of the student, class, schedule and day, then the save.                 *)

\* Class.teacherId
classTeacherId(classId) == IF classId = "c1" THEN "t1" ELSE "t2"

ManualBody(studentId, classId, scheduleId, attendedAt) ==
    [studentId |-> studentId, classId |-> classId, scheduleId |-> scheduleId,
     attendedAt |-> attendedAt]

\* new Date(now).setHours(0, 0, 0, 0): the start of the day of the instant in
\* the server's zone.
startOfLocalDay(ms, utcOffsetMinutes) ==
    ((ms + utcOffsetMinutes * 60 * 1000) \div MsPerDay) * MsPerDay
        - utcOffsetMinutes * 60 * 1000

\* now < scheduleDate || now > scheduleEnd, a comparison with an invalid date
\* being false.
outsideSchedule(schedule, at, utcOffsetMinutes) ==
    LET scheduleDate == localDate(isoDay(at), schedule.startTime, utcOffsetMinutes)
        scheduleEnd == localDate(isoDay(at), schedule.endTime, utcOffsetMinutes)
    IN  \/ scheduleDate # InvalidDate /\ at < scheduleDate
        \/ scheduleEnd # InvalidDate /\ at > scheduleEnd

\* Attendance.findOne({ studentId, classId, scheduleId, attendedAt: the day })
existingAttendance(store, b, utcOffsetMinutes) ==
    \E i \in DOMAIN store :
        /\ store[i].studentId = b.studentId
        /\ store[i].classId = b.classId
        /\ store[i].scheduleId = b.scheduleId
        /\ store[i].attendedAt >= startOfLocalDay(b.attendedAt, utcOffsetMinutes)
        /\ store[i].attendedAt
              < startOfLocalDay(b.attendedAt, utcOffsetMinutes) + MsPerDay - 1

manualAttendanceStatus(store, user, b) ==
    IF role(user) \notin {"teacher", "admin"} THEN 403
    ELSE IF ~Enrolled(b.classId, b.studentId) THEN 403
    ELSE IF b.scheduleId \notin DOMAIN schedules \/ b.classId \notin Classes THEN 404
    ELSE IF schedules[b.scheduleId].classId # b.classId THEN 400
    ELSE IF role(user) = "teacher" /\ classTeacherId(b.classId) # user THEN 403
    ELSE IF outsideSchedule(schedules[b.scheduleId], b.attendedAt, probe.utcOffsetMinutes)
         THEN 400
    ELSE IF existingAttendance(store, b, probe.utcOffsetMinutes) THEN 409
    ELSE 201

\* new Attendance({ ..., sessionId: null, studentCoordinates: null, manualEntry: true })
ManualDoc(b) ==
    [studentId |-> b.studentId, sessionId |-> NoId, classId |-> b.classId,
     scheduleId |-> b.scheduleId, studentCoordinates |-> "null",
     attendedAt |-> b.attendedAt, syncVersion |-> 1,
     manualEntry |-> TRUE, status |-> "present"]

\* attendanceSchema.pre('save') for a manual entry. studentCoordinates is a
\* nested path that was set to null: whether reading it gives null or the
\* nested object depends on the mongoose the server runs with.
ManualSaveHookOk(doc, nestedPathIsObject) ==
    /\ doc.scheduleId # NoId =>
          /\ doc.scheduleId \in DOMAIN schedules
          /\ schedules[doc.scheduleId].classId = doc.classId
    /\ role(doc.studentId) = "student"
    /\ doc.classId \in Classes
    /\ ~nestedPathIsObject

manualAttendanceFind(p, user, b) ==
    /\ procs[p] = Idle
    /\ procs' = IF manualAttendanceStatus(attendance, user, b) = 201
                THEN [procs EXCEPT ![p] = [pc |-> "manual_save", user |-> user,
                                           data |-> ManualDoc(b)]]
                ELSE procs
    /\ UNCHANGED <<schedules, clock, sessions, attendance, probe>>

manualAttendanceSave(p, nestedPathIsObject) ==
    /\ procs[p].pc = "manual_save"
    /\ attendance' =
          IF /\ ManualSaveHookOk(procs[p].data, nestedPathIsObject)
             /\ ~AttendanceDuplicateKey(attendance, procs[p].data)
          THEN Append(attendance, procs[p].data)
          ELSE attendance
    /\ procs' = [procs EXCEPT ![p] = Idle]
    /\ UNCHANGED <<schedules, clock, sessions, probe>>

\* Schedules of class c1, one with its hour written with one digit, and one
\* of class c2.
ManualSchedules ==
    <<ScheduleDoc("c1", "t1", "Monday", TimeString(9, 0, TRUE), TimeString(10, 0, TRUE), "r1"),
      ScheduleDoc("c1", "t2", "Monday", TimeString(9, 0, FALSE), TimeString(10, 0, TRUE), "r1"),
      ScheduleDoc("c2", "t1", "Monday", TimeString(10, 0, TRUE), TimeString(11, 0, TRUE), "r1")>>

ManualZones == {0, 330}
ManualHours == {3, 9, 10}
ManualDays == {1, 2}

\* Instants at an hour of a day in the server's zone.
ManualInstant(day, hour, utcOffsetMinutes) ==
    day * MsPerDay + (hour * 60 - utcOffsetMinutes) * 60 * 1000

\* Entries for the enrolled s1 and for s3, who is enrolled nowhere.
ManualBodies ==
    {ManualBody(st, c, k, ManualInstant(d, h, probe.utcOffsetMinutes)) :
        st \in {"s1", "s3"}, c \in Classes, k \in 1..(Len(ManualSchedules) + 1),
        d \in ManualDays, h \in ManualHours}

InitManual ==
    /\ schedules = ManualSchedules
    /\ clock = 0
    /\ sessions = <<>>
    /\ attendance = <<>>
    /\ procs = [p \in Procs |-> Idle]
    /\ probe \in {ServerZone(z) : z \in ManualZones}

NextManual ==
    \/ \E p \in Procs, u \in Users \cup {"s1"}, b \in ManualBodies :
          manualAttendanceFind(p, u, b)
    \/ \E p \in Procs, nestedPathIsObject \in BOOLEAN :
          manualAttendanceSave(p, nestedPathIsObject)

SpecManual == InitManual /\ [][NextManual]_vars

\* The instant is, by the clock of the server's zone, a time of day from the
\* schedule's start to its end.
WithinSchedule(schedule, at, utcOffsetMinutes) ==
    LET timeOfDay == (at + utcOffsetMinutes * 60 * 1000) % MsPerDay
    IN  /\ momentParse(schedule.startTime) * 60 * 1000 <= timeOfDay
        /\ timeOfDay <= momentParse(schedule.endTime) * 60 * 1000

\* The day of the instant on the calendar of the server's zone.
CalendarDay(at, utcOffsetMinutes) == (at + utcOffsetMinutes * 60 * 1000) \div MsPerDay

-----------------------------------------------------------------------------
(* The conflict probe.                                                     *)

\* C24: in every state and for every caller, teacher, day and times,
\* checkScheduleConflict reports a conflict exactly when createSchedule with
\* the same arguments would be answered 409; and the probe changes no
\* schedule.
C24_ProbeAgreesWithCreate ==
    /\ [](\A user \in Users : \A b \in ScheduleBodies :
             checkScheduleConflictStatus(schedules, user, b) = 409
                 <=> createScheduleStatus(schedules, user, b) = 409)
    /\ [][(\E user \in Users, b \in ScheduleBodies : checkScheduleConflict(user, b)) =>
            schedules' = schedules]_vars

\* The store holds an active and an inactive schedule, and the probe reports
\* a conflict for one candidate and none for another.
C24_Witness_ConflictAndNone ==
    /\ \E i, j \in DOMAIN schedules : schedules[i].isActive /\ ~schedules[j].isActive
    /\ \E b \in ScheduleBodies : checkScheduleConflictStatus(schedules, "t1", b) = 409
    /\ \E b \in ScheduleBodies : checkScheduleConflictStatus(schedules, "t1", b) = 200

-----------------------------------------------------------------------------
(* Ownership of schedules.                                                 *)

\* C25: a teacher's updateSchedule, deleteSchedule, splitSchedule or
\* mergeSchedules request on a schedule whose stored teacherId is another
\* teacher is answered with an error and leaves that schedule as it is.
C25_OnlyOwnerChangesSchedule ==
    \A user \in Teachers : \A id \in DOMAIN schedules :
        schedules[id].teacherId # user =>
            /\ \A p \in SchedulePatches :
                  /\ updateScheduleStatus(schedules, user, id, p) # 200
                  /\ updateScheduleStore(schedules, user, id, p)[id] = schedules[id]
            /\ deleteScheduleStatus(schedules, user, id) # 200
            /\ deleteScheduleStore(schedules, user, id)[id] = schedules[id]
            /\ \A pts \in SplitRequests :
                  /\ splitScheduleResult(schedules, user, id, pts).status # 200
                  /\ splitScheduleResult(schedules, user, id, pts).store[id] = schedules[id]
            /\ \A ids \in MergeRequests :
                  (\E k \in DOMAIN ids : ids[k] = id) =>
                      /\ mergeSchedulesStatus(schedules, user, ids) # 200
                      /\ mergeSchedulesStore(schedules, user, ids)[id] = schedules[id]

-----------------------------------------------------------------------------
(* Termination of sessions.                                                *)

\* The session is stored, is the teacher's and is active.
Targeted(store, user, sid) ==
    SessionStored(store, sid) /\ store[sid].teacherId = user /\ store[sid].isActive

\* C26: terminateQRSession makes the caller's active session inactive with
\* expiresAt = now and changes no other session; terminateAllQRSessions does
\* so to every active session of the caller and changes no session of
\* another teacher; a session that is inactive stays inactive, and validate,
\* refresh and submit requests for it are refused.
C26_TerminateFrame ==
    /\ [](\A user \in Teachers : \A sid \in SessionIds :
             LET store == terminateQRSessionStore(sessions, user, sid, now)
             IN  /\ Targeted(sessions, user, sid) =>
                       /\ terminateQRSessionStatus(sessions, user, sid) = 200
                       /\ ~store[sid].isActive /\ store[sid].expiresAt = now
                       /\ \A i \in DOMAIN sessions : i # sid => store[i] = sessions[i]
                 /\ ~Targeted(sessions, user, sid) => store = sessions)
    /\ [](\A user \in Teachers :
             LET store == terminateAllQRSessionsStore(sessions, user, now)
             IN  \A i \in DOMAIN sessions :
                    IF Targeted(sessions, user, i)
                    THEN ~store[i].isActive /\ store[i].expiresAt = now
                    ELSE store[i] = sessions[i])
    /\ [](\A sid \in DOMAIN sessions :
             (sessions[sid].stored /\ ~sessions[sid].isActive) =>
                 /\ \A token \in Tokens : \A student \in Students :
                       tokenSessionId(token, now) = sid =>
                           validateQRTokenStatus(sessions, student, token, now) # 200
                 /\ \A user \in Teachers : refreshQRTokenStatus(user, sid) # 200
                 /\ \A student \in Students : \A b \in SubmitBodies :
                       b.sessionId = sid => submitAttendanceStatus(student, b) # 201)
    /\ [][\A sid \in DOMAIN sessions :
            (sessions[sid].stored /\ ~sessions[sid].isActive /\ sessions'[sid].stored) =>
                ~sessions'[sid].isActive]_vars

\* A session was terminated before its lifetime was over, while a session of
\* another teacher is still active.
C26_Witness_TerminatedEarly ==
    \E i, j \in DOMAIN sessions :
        /\ sessions[i].stored /\ ~sessions[i].isActive
        /\ now < sessions[i].createdAt + SessionLifetime
        /\ sessions[j].stored /\ sessions[j].isActive
        /\ sessions[j].teacherId # sessions[i].teacherId


-----------------------------------------------------------------------------
(* The versions of one pair: the syncs of student s1 for session 1, two in *)
(* flight together, each carrying one item with its own syncVersion.       *)

VersionBatches ==
    {<<SyncItem(1, "c1", NoId, Near, v, Time(0))>> : v \in 1..(MaxVersion + 1)}

NextVersions ==
    \/ \E p \in Procs, items \in VersionBatches : syncAttendanceStart(p, "s1", items)
    \/ \E p \in Procs : syncAttendanceCheck(p)
    \/ \E p \in Procs : syncAttendanceWrite(p)
    \/ \E p \in Procs : syncAttendanceRespond(p)

SpecVersions == InitAttendance /\ [][NextVersions]_vars

\* The versions a request in flight has reported as written.
ReportedSuccess(r) ==
    IF "results" \in DOMAIN r
    THEN {r.results[i].data.syncVersion :
             i \in {j \in DOMAIN r.results : r.results[j].status = "success"}}
    ELSE {}

\* C27: the syncVersion stored for a (sessionId, studentId) record never
\* decreases: no step of concurrent syncAttendance requests for the pair
\* lowers the version of a stored record, and the stored record holds at
\* least every version a request has reported as success.
C27_SyncVersionNeverDecreases ==
    /\ [][\A i \in DOMAIN attendance :
            attendance'[i].syncVersion >= attendance[i].syncVersion]_vars
    /\ [](\A p \in Procs : \A v \in ReportedSuccess(procs[p]) :
            \A i \in DOMAIN attendance :
               (attendance[i].sessionId = 1 /\ attendance[i].studentId = "s1")
                  => attendance[i].syncVersion >= v)


-----------------------------------------------------------------------------
(* createSchedule in steps: the conflict query, then the save, with the    *)
(* steps of another request, a bulk creation or a deletion between the two. *)

\* The checks of createSchedule and Schedule.findOne(conflict query).
createScheduleFind(p, user, b) ==
    /\ procs[p] = Idle
    /\ LET admitted == /\ MatchesTimeFormat(b.startTime)
                       /\ MatchesTimeFormat(b.endTime)
                       /\ TeacherIdAllowed(user, b.teacherId)
                       /\ conflictingSchedule(schedules, NoId, b.teacherId,
                                              b.dayOfWeek, b.startTime,
                                              b.endTime) = {}
       IN  procs' = IF admitted
                    THEN [procs EXCEPT ![p] = [pc |-> "create_save", data |-> b]]
                    ELSE procs
    /\ UNCHANGED <<schedules, clock, sessions, attendance, probe>>

\* new Schedule(body).save()
createScheduleSave(p) ==
    /\ procs[p].pc = "create_save"
    /\ schedules' = IF ScheduleInsertOk(schedules, procs[p].data)
                    THEN Append(schedules, procs[p].data)
                    ELSE schedules
    /\ procs' = [procs EXCEPT ![p] = Idle]
    /\ UNCHANGED <<clock, sessions, attendance, probe>>

\* The requests that have passed the conflict query and not yet saved.
InFlightCreates == Cardinality({p \in Procs : procs[p].pc = "create_save"})

\* The bodies of teacher t1 with both times written with two digits of hour.
CreateRaceBodies ==
    {b \in BulkBodies : Len(b.startTime) = 5 /\ Len(b.endTime) = 5}

NextCreate ==
    \/ \E p \in Procs, b \in CreateRaceBodies :
          /\ Len(schedules) + InFlightCreates < MaxSchedules
          /\ createScheduleFind(p, "t1", b)
    \/ \E p \in Procs : createScheduleSave(p)
    \/ \E b \in CreateRaceBodies :
          /\ Len(schedules) + InFlightCreates < MaxSchedules
          /\ createBulkSchedules("t1", <<b>>)
    \/ \E id \in ScheduleIds : deleteSchedule("t1", id)

SpecCreate == Init /\ [][NextCreate]_vars

\* C28: two concurrent createSchedule (or createBulkSchedules) requests of
\* one teacher for one day whose intervals overlap never both persist an
\* active schedule: whatever the interleaving of their conflict queries and
\* saves, a save never adds an active schedule that overlaps an active
\* schedule the teacher already has on that day.
C28_ConcurrentCreatesNeverOverlap ==
    [][\A j \in DOMAIN schedules' :
          (j \notin DOMAIN schedules /\ schedules'[j].isActive)
             => \A i \in DOMAIN schedules :
                   (/\ schedules[i].isActive
                    /\ schedules[i].teacherId = schedules'[j].teacherId
                    /\ schedules[i].dayOfWeek = schedules'[j].dayOfWeek)
                      => ~Overlap(schedules[i], schedules'[j])]_vars


-----------------------------------------------------------------------------
(* The references of a record.                                             *)

\* C29: after any sequence of submitAttendance and syncAttendance requests,
\* every stored attendance record is referentially consistent: its classId is
\* the classId of the session it references (while the session's document is
\* stored), and when it has a scheduleId,
\* that schedule belongs to the same class; this holds for the records a sync
\* has overwritten in place as for the newly created ones.
C29_RecordsReferentiallyConsistent ==
    \A i \in DOMAIN attendance :
        /\ SessionStored(sessions, attendance[i].sessionId) =>
              sessions[attendance[i].sessionId].classId = attendance[i].classId
        /\ attendance[i].scheduleId # NoId =>
              /\ attendance[i].scheduleId \in DOMAIN schedules
              /\ schedules[attendance[i].scheduleId].classId = attendance[i].classId


-----------------------------------------------------------------------------
(* References and payloads across refreshes.                               *)

\* The session as it would be with the token of another refresh.
WithToken(store, sid, timestamp) ==
    [store EXCEPT ![sid].token =
        jwtSign(store[sid].sessionId, store[sid].classId, timestamp,
                store[sid].expiresAt)]

=============================================================================
